---- MODULE Spec2Model ----
(***************************************************************************)
(* The streaming metric-aggregation pipeline of QUASAR:                    *)
(*   sequence_ext/orchestrator/orchestrator.py  (_aggregate_timeslice,     *)
(*                                               Orchestrator.run)         *)
(*   sequence_ext/io/metrics.py                 (MetricFrame, _coerce_like)*)
(*   sequence_ext/io/writers.py                 (ResultWriter)             *)
(*   scripts/sweep.py                           (main, _worker, the grids) *)
(*                                                                         *)
(* Numbers.  The Python floats of the run loop (duration_s, chunk_sec,     *)
(* bin_sec, t0, remaining, the "time" cells) are kept as exact integers in *)
(* units of 1/UnitsPerSec second; the runs of Spec have durations and      *)
(* widths for which the float loop makes the same iterations.  SpecFloat   *)
(* follows the loop in binary64 for inputs where it does not.  The float32 *)
(* sample times of _aggregate_timeslice are kept in ticks of 2^-34 second, *)
(* rounded to the 24-bit significand of numpy.float32 (round to nearest,   *)
(* ties to even).                                                          *)
(*                                                                         *)
(* Cells.  A DataFrame cell is <<kind, value>>: Num(x) a number, Text(i) a *)
(* text with identifier i, NA the null marker (NaN / <NA>).  The reduced   *)
(* value of a metric column is not computed: the cell of a mean carries    *)
(* the number of samples the mean was taken over.                          *)
(***************************************************************************)
EXTENDS Integers, Sequences, FiniteSets, TLC

VARIABLES
    cfg,        \* the Orchestrator's fields: pulse_rate_hz, duration_s, bin_sec, chunk_sec
    pc,         \* position of Orchestrator.run: Idle, Running, Sorting, Finished, Aborted
    mf,         \* the local MetricFrame of run (NoStore before it is created)
    t0,         \* local t0 of run
    remaining,  \* local remaining of run
    nsorted,    \* how many category tables the final loop has sorted
    returned,   \* the value run returned (NoStore when it has not returned, or raised)
    raised,     \* the exception that left run ("none" when none did)
    chunks,     \* history: <<t0, cur, n>> of every chunk processed, in order
    heap,       \* the MetricFrame objects a client of metrics.py holds, by name
    lastOp,     \* the last call made on them: append, merge or write, with its
                \* arguments and, for a write, its outcome
    nappends,   \* the number of append calls the client has made
    disk,       \* the file system: the destination directories and their files
    sweep,      \* scripts/sweep.py: the task list of main and each task's progress
    signal,     \* a caller has asked for the run in progress to stop
    fl          \* the locals of run as the binary64 values Python computes

runVars == <<cfg, pc, mf, t0, remaining, nsorted, returned, raised, chunks>>

storeVars == <<heap, lastOp, nappends>>

diskVars == <<disk>>

envVars == <<sweep, signal, fl>>

vars == <<cfg, pc, mf, t0, remaining, nsorted, returned, raised, chunks,
          heap, lastOp, nappends, disk, sweep, signal, fl>>

(***************************************************************************)
(* Bounds of the model.                                                    *)
(***************************************************************************)
MaxChunks == 4

UnitsPerSec == 10 * 100

NoStore == [none |-> TRUE]

(***************************************************************************)
(* Cells, tables, schemas.                                                 *)
(***************************************************************************)
Num(x) == <<"num", x>>

Text(i) == <<"text", i>>

NA == <<"na", 0>>

PathLabel == Text(0)

Categories == <<"physical", "network", "protocol", "security">>

CategorySet == {"physical", "network", "protocol", "security"}

Schema(cat) ==
    CASE cat = "physical" -> <<"time", "loss_dB", "bsm_vis", "dark_rate">>
      [] cat = "network"  -> <<"time", "path", "util", "latency_ns">>
      [] cat = "protocol" -> <<"time", "qber", "sifted_rate", "ec_leak">>
      [] cat = "security" -> <<"time", "secret_rate", "epsilon">>

SchemaDtype(cat, c) == IF cat = "network" /\ c = "path" THEN "string" ELSE "float64"

Range(s) == {s[i] : i \in DOMAIN s}

Frame(columns, dtypes, rows) == [columns |-> columns, dtypes |-> dtypes, rows |-> rows]

EmptyFrame(cat) ==
    Frame(Schema(cat), [c \in Range(Schema(cat)) |-> SchemaDtype(cat, c)], <<>>)

MetricFrame == [cat \in CategorySet |-> EmptyFrame(cat)]

\* DataFrame.empty: no rows or no columns
IsEmpty(df) == Len(df.rows) = 0 \/ Len(df.columns) = 0

(***************************************************************************)
(* Arithmetic.                                                             *)
(***************************************************************************)
Abs(x) == IF x < 0 THEN -x ELSE x

\* Python round(a / d) for d > 0: to the nearest integer, ties to even
RoundHalfEven(a, d) ==
    LET q == a \div d
        r == a - q * d
    IN  IF 2 * r > d \/ (2 * r = d /\ q % 2 = 1) THEN q + 1 ELSE q

\* <<q, r>> with an exact value of q + r/den: that value times m
ScaleBy(qr, den, m) ==
    <<qr[1] * m + (qr[2] * m) \div den, (qr[2] * m) % den>>

\* num/den second (0 <= num/den < 1/8, den <= 2^20) in ticks of 2^-34 second:
\* <<whole ticks, remainder>>
TicksQR(num, den) ==
    ScaleBy(ScaleBy(ScaleBy(ScaleBy(<<num \div den, num % den>>, den, 2048),
                            den, 2048), den, 2048), den, 2)

\* a Python float num/den second, to the nearest tick
Ticks(num, den) ==
    LET qr == TicksQR(Abs(num), den)
        t  == IF 2 * qr[2] >= den THEN qr[1] + 1 ELSE qr[1]
    IN  IF num < 0 THEN -t ELSE t

\* numpy.float32 has a 24-bit significand: 2^24
F32Significand == 16777216

\* the spacing of float32 values at x ticks (1 when finer than a tick)
RECURSIVE Ulp(_)
Ulp(x) == IF x < F32Significand THEN 1 ELSE 2 * Ulp(x \div 2)

\* x ticks (x >= 0) plus, when sticky, a fraction below one tick: as float32
F32Round(x, sticky) ==
    LET u    == Ulp(x)
        low  == x % u
        base == x - low
    IN  IF 2 * low > u \/ (2 * low = u /\ (sticky \/ (base \div u) % 2 = 1))
        THEN base + u ELSE base

F32(x) == F32Round(x, FALSE)

\* float32(i) / float32(rate), in ticks
F32Div(i, rate) ==
    LET qr == TicksQR(i, rate)
        q  == qr[1]
        r  == qr[2]
    IN  IF Ulp(q) = 1
        THEN IF 2 * r > rate \/ (2 * r = rate /\ q % 2 = 1) THEN q + 1 ELSE q
        ELSE F32Round(q, r > 0)

(***************************************************************************)
(* _aggregate_timeslice                                                    *)
(***************************************************************************)
\* int(round(rate * chunk_sec))
NSamples(rate, chunk_sec) == RoundHalfEven(rate * chunk_sec, UnitsPerSec)

\* t = t0 + (np.arange(n, dtype=np.float32) / float(rate)): element i, a float32;
\* ft0 is t0 as float32
SampleTime(ft0, i, rate) == F32(ft0 + F32Div(i, rate))

\* floor((time - t0) / bin_sec), for bin_sec # 0
BinIndex(time, start, bin_sec) == (time - start) \div bin_sec

\* the "bin" column of a slice: floor(...) * bin_sec + t0, per sample;
\* bin_sec = 0 gives NaN for every sample
BinColumn(start, rate, n, bin_sec) ==
    LET startT == Ticks(start, UnitsPerSec)
        binT   == Ticks(bin_sec, UnitsPerSec)
        ft0    == F32(startT)
    IN  [i \in 0 .. n - 1 |->
            IF bin_sec = 0 THEN NA
            ELSE Num(BinIndex(SampleTime(ft0, i, rate), startT, binT) * bin_sec + start)]

\* the sorted sequence of the elements of a finite set of integers
RECURSIVE SortedSeq(_)
SortedSeq(S) ==
    IF S = {} THEN <<>>
    ELSE LET m == CHOOSE x \in S : \A y \in S : x <= y
         IN  <<m>> \o SortedSeq(S \ {m})

\* mutant of GroupBy: no reduction, one group per sample
GroupByPerSample(bins) ==
    [g \in 1 .. Cardinality(DOMAIN bins) |-> [key |-> bins[g - 1][2], size |-> 1]]

\* groupby("bin", as_index=False): the group keys in increasing order (NaN keys
\* are dropped) and the number of samples of each
GroupBy(bins) ==
    LET keys == SortedSeq({bins[i][2] : i \in {j \in DOMAIN bins : bins[j] # NA}})
    IN  [g \in DOMAIN keys |->
            [key |-> keys[g],
             size |-> Cardinality({i \in DOMAIN bins : bins[i] = Num(keys[g])})]]

\* columns of the four aggregated frames, in the order the code builds them
AggColumns(cat) ==
    CASE cat = "physical" -> <<"time", "loss_dB", "bsm_vis", "dark_rate">>
      [] cat = "network"  -> <<"time", "util", "latency_ns", "path">>
      [] cat = "protocol" -> <<"time", "qber", "sifted_rate", "ec_leak">>
      [] cat = "security" -> <<"time", "secret_rate", "epsilon">>

AggDtype(cat, c) == IF cat = "network" /\ c = "path" THEN "object" ELSE "float64"

\* one aggregated row: the bin edge as "time", the reduced metrics
AggRow(cat, g) ==
    [c \in Range(AggColumns(cat)) |->
        IF c = "time" THEN Num(g.key)
        ELSE IF c = "path" THEN PathLabel
        ELSE Num(g.size)]

\* the columns of the empty tables of _aggregate_timeslice
EmptyColumns(cat) ==
    CASE cat = "physical" -> <<"time", "loss_dB", "bsm_vis", "dark_rate">>
      [] cat = "network"  -> <<"time", "path", "util", "latency_ns">>
      [] cat = "protocol" -> <<"time", "qber", "sifted_rate", "ec_leak">>
      [] cat = "security" -> <<"time", "secret_rate", "epsilon">>

\* mutant of aggregate_timeslice: a slice shorter than one bin is discarded
aggregate_timeslice_drops_partial(start, rate, chunk_sec, bin_sec) ==
    LET n == NSamples(rate, chunk_sec)
    IN  IF n <= 0 \/ chunk_sec < bin_sec
        THEN [cat \in CategorySet |->
                Frame(EmptyColumns(cat),
                      [c \in Range(EmptyColumns(cat)) |-> "object"], <<>>)]
        ELSE LET groups == GroupBy(BinColumn(start, rate, n, bin_sec))
             IN  [cat \in CategorySet |->
                    Frame(AggColumns(cat),
                          [c \in Range(AggColumns(cat)) |-> AggDtype(cat, c)],
                          [g \in DOMAIN groups |-> AggRow(cat, groups[g])])]

aggregate_timeslice(start, rate, chunk_sec, bin_sec) ==
    LET n == NSamples(rate, chunk_sec)
    IN  IF n <= 0
        THEN [cat \in CategorySet |->
                Frame(EmptyColumns(cat),
                      [c \in Range(EmptyColumns(cat)) |-> "object"], <<>>)]
        ELSE LET groups == GroupBy(BinColumn(start, rate, n, bin_sec))
             IN  [cat \in CategorySet |->
                    Frame(AggColumns(cat),
                          [c \in Range(AggColumns(cat)) |-> AggDtype(cat, c)],
                          [g \in DOMAIN groups |-> AggRow(cat, groups[g])])]

(***************************************************************************)
(* MetricFrame: _coerce_like, append, merge                                *)
(***************************************************************************)
None == [none |-> TRUE]

\* the text of a number, and the number a numeric text parses to
NumText(x) == 100 + x

IsNumText(i) == i >= 100

\* Series.astype(dt) raises: a text that is no number, cast to float64
AstypeRaises(cells, dt) ==
    dt = "float64" /\ \E v \in cells : v[1] = "text" /\ ~IsNumText(v[2])

\* one cell of Series.astype(dt)
Astype(v, dt) ==
    CASE dt = "float64" /\ v[1] = "text" -> Num(v[2] - 100)
      [] dt = "string" /\ v[1] = "num"   -> Text(NumText(v[2]))
      [] OTHER                           -> v

\* mutant of Reindex: a column of df that ref lacks is kept, after ref's columns
ReindexKeepsUnknown(df, columns) ==
    LET extra == SelectSeq(df.columns, LAMBDA c : c \notin Range(columns))
        all   == columns \o extra
    IN  Frame(all,
              [c \in Range(all) |->
                  IF c \in Range(df.columns) THEN df.dtypes[c] ELSE "float64"],
              [r \in DOMAIN df.rows |->
                  [c \in Range(all) |->
                      IF c \in Range(df.columns) THEN df.rows[r][c] ELSE NA]])

\* df.reindex(columns=ref.columns): ref's columns in ref's order, a column df
\* lacks filled with NaN, a column ref lacks dropped
Reindex(df, columns) ==
    Frame(columns,
          [c \in Range(columns) |->
              IF c \in Range(df.columns) THEN df.dtypes[c] ELSE "float64"],
          [r \in DOMAIN df.rows |->
              [c \in Range(columns) |->
                  IF c \in Range(df.columns) THEN df.rows[r][c] ELSE NA]])

\* the columns of out whose cast to ref's dtype raises (the cast is skipped)
CastSkipped(out, ref) ==
    {c \in Range(ref.columns) :
        AstypeRaises({out.rows[r][c] : r \in DOMAIN out.rows}, ref.dtypes[c])}

coerce_like(df, ref) ==
    LET out  == Reindex(df, ref.columns)
        skip == CastSkipped(out, ref)
        cast == Range(ref.columns) \ skip
    IN  Frame(out.columns,
              [c \in Range(out.columns) |->
                  IF c \notin cast THEN out.dtypes[c] ELSE ref.dtypes[c]],
              [r \in DOMAIN out.rows |->
                  [c \in Range(out.columns) |->
                      IF c \notin cast THEN out.rows[r][c]
                      ELSE Astype(out.rows[r][c], ref.dtypes[c])]])

\* mutant of Concat: the incoming rows are put before the stored ones
ConcatPrepends(a, b) ==
    Frame(a.columns,
          [c \in Range(a.columns) |->
              IF a.dtypes[c] = b.dtypes[c] THEN a.dtypes[c] ELSE "object"],
          b.rows \o a.rows)

\* pd.concat([a, b], ignore_index=True) of two frames with the same columns
Concat(a, b) ==
    Frame(a.columns,
          [c \in Range(a.columns) |->
              IF a.dtypes[c] = b.dtypes[c] THEN a.dtypes[c] ELSE "object"],
          a.rows \o b.rows)

\* mutant of AppendTable: the emptiness of the coerced table, not of the stored
\* one, decides between assignment and concatenation
AppendTableEmptySrc(cur, arg) ==
    IF arg # None
    THEN LET src == coerce_like(arg, cur)
         IN  IF IsEmpty(src) THEN src ELSE Concat(cur, src)
    ELSE cur

\* mutant of AppendTable: the coerced table is assigned, never concatenated
AppendTableOverwrite(cur, arg) ==
    IF arg # None /\ ~IsEmpty(arg) THEN coerce_like(arg, cur) ELSE cur

\* one category of MetricFrame.append: the new table of the category
AppendTable(cur, arg) ==
    IF arg # None /\ ~IsEmpty(arg)
    THEN LET src == coerce_like(arg, cur)
         IN  IF IsEmpty(cur) THEN src ELSE Concat(cur, src)
    ELSE cur

\* mutant of append: the network block is left out
append_without_network(self, args) ==
    [cat \in CategorySet |->
        IF cat = "network" THEN self[cat] ELSE AppendTable(self[cat], args[cat])]

\* MetricFrame.append(physical=, network=, protocol=, security=) on store self;
\* args maps each category to a frame or to None
append(self, args) == [cat \in CategorySet |-> AppendTable(self[cat], args[cat])]

\* the store after the first k of the four category blocks of append have run
\* (an exception in block k + 1 leaves it so)
AppendUpTo(self, args, k) ==
    [cat \in CategorySet |->
        IF \E j \in 1 .. k : Categories[j] = cat
        THEN AppendTable(self[cat], args[cat]) ELSE self[cat]]

AsArgs(f) == [cat \in CategorySet |-> f[cat]]

RECURSIVE MergeFrom(_, _)
MergeFrom(out, frames) ==
    IF frames = <<>> THEN out
    ELSE MergeFrom(append(out, AsArgs(frames[1])), Tail(frames))

\* mutant of merge: frames = [*others], self is left out
merge_without_self(self, others) == MergeFrom(MetricFrame, others)

\* MetricFrame.merge(self, others): a new store
merge(self, others) == MergeFrom(MetricFrame, <<self>> \o others)

(***************************************************************************)
(* DataFrame.sort_values("time", kind="mergesort", ignore_index=True)      *)
(***************************************************************************)
\* the sort key of a row: its "time" (NaN sorts last)
TimeBefore(a, b) == a["time"] # NA /\ (b["time"] = NA \/ a["time"][2] < b["time"][2])

\* mutant of InsertStable: r goes before the rows of s with the same time
RECURSIVE InsertBeforeEqual(_, _)
InsertBeforeEqual(s, r) ==
    IF s = <<>> THEN <<r>>
    ELSE IF ~TimeBefore(s[Len(s)], r)
         THEN InsertBeforeEqual(SubSeq(s, 1, Len(s) - 1), r) \o <<s[Len(s)]>>
    ELSE s \o <<r>>

\* r inserted into the sorted sequence s after every row not later than r
RECURSIVE InsertStable(_, _)
InsertStable(s, r) ==
    IF s = <<>> THEN <<r>>
    ELSE IF TimeBefore(r, s[Len(s)]) THEN InsertStable(SubSeq(s, 1, Len(s) - 1), r) \o <<s[Len(s)]>>
    ELSE s \o <<r>>

RECURSIVE SortRows(_)
SortRows(rows) ==
    IF rows = <<>> THEN <<>>
    ELSE InsertStable(SortRows(SubSeq(rows, 1, Len(rows) - 1)), rows[Len(rows)])

\* mutant of sort_values: the table is left in arrival order
sort_values_skipped(df) == df

sort_values(df) == Frame(df.columns, df.dtypes, SortRows(df.rows))

(***************************************************************************)
(* Orchestrator.run                                                        *)
(***************************************************************************)
Config(rate, duration, bin_sec, chunk_sec) ==
    [pulse_rate_hz |-> rate, duration_s |-> duration,
     bin_sec |-> bin_sec, chunk_sec |-> chunk_sec]

\* pulse rates (Hz) and, in units of 1/UnitsPerSec second, durations, bin
\* widths and chunk widths the orchestrator is constructed with
Rates == {0, 10, 60, 1000}

Durations == {0, 20, 25, 30}

BinWidths == {0, 10, 20}

ChunkWidths == {-10, 0, 10, 15}

Configs ==
    {Config(r, d, b, c) : r \in Rates, d \in Durations, b \in BinWidths, c \in ChunkWidths}

\* the preconditions of run
Valid(c) ==
    c.pulse_rate_hz > 0 /\ c.duration_s > 0 /\ c.bin_sec > 0 /\ c.chunk_sec > 0

\* the runs the documentation and the tests name:
\* run(1_000_000, 0.02, 0.01, 0.01), run(1_000_000, 0.005, 0.01, 0.01)
NamedConfigs == {Config(1000000, 20, 10, 10), Config(1000000, 5, 10, 10)}

\* mutant of Min: the chunk width is taken whatever remains
MinFirst(a, b) == a

Min(a, b) == IF a <= b THEN a ELSE b

NoOp == [op |-> "none"]

\* the destination directories a client writes to: the Orchestrator's
\* output_dir and another directory
Dests == {"out", "alt"}

\* a path that does not exist
NoDir == [none |-> TRUE]

\* no run is followed in binary64
NoFloat == [pc |-> "none"]

\* no sweep is under way
NoSweep == [kind |-> "none"]

\* no destination directory exists
NoDisk == [d \in Dests |-> NoDir]

\* the stores a client holds: two it creates with MetricFrame() and the result
\* of a merge
InputIds == {"A", "B"}

StoreIds == InputIds \cup {"R"}

InitRun(configs) ==
    /\ cfg \in configs
    /\ pc = "Idle"
    /\ mf = NoStore
    /\ t0 = 0
    /\ remaining = 0
    /\ nsorted = 0
    /\ returned = NoStore
    /\ raised = "none"
    /\ chunks = <<>>
    /\ heap = [s \in StoreIds |-> NoStore]
    /\ lastOp = NoOp
    /\ nappends = 0
    /\ disk = NoDisk
    /\ sweep = NoSweep
    /\ signal = FALSE
    /\ fl = NoFloat

Init == InitRun(Configs)

\* run is entered: mf = MetricFrame(); t0 = 0.0; remaining = float(duration_s)
Start ==
    /\ pc = "Idle"
    /\ pc' = "Running"
    /\ mf' = MetricFrame
    /\ t0' = 0
    /\ remaining' = cfg.duration_s
    /\ UNCHANGED <<cfg, nsorted, returned, raised, chunks, storeVars, diskVars, envVars>>

\* mutant of Chunk: an iteration whose slice holds no sample is skipped before
\* t0 and remaining are advanced
ChunkSkipsEmpty ==
    /\ pc = "Running"
    /\ remaining > 0
    /\ Len(chunks) < MaxChunks
    /\ LET cur == Min(cfg.chunk_sec, remaining)
           n   == NSamples(cfg.pulse_rate_hz, cur)
           agg == aggregate_timeslice(t0, cfg.pulse_rate_hz, cur, cfg.bin_sec)
       IN  /\ mf' = append(mf, agg)
           /\ t0' = (IF n <= 0 THEN t0 ELSE t0 + cur)
           /\ remaining' = (IF n <= 0 THEN remaining ELSE remaining - cur)
           /\ chunks' = Append(chunks, <<t0, cur, n>>)
    /\ UNCHANGED <<cfg, pc, nsorted, returned, raised, storeVars, diskVars, envVars>>

\* one iteration of the while loop
Chunk ==
    /\ pc = "Running"
    /\ remaining > 0
    /\ Len(chunks) < MaxChunks
    /\ LET cur == Min(cfg.chunk_sec, remaining)
           agg == aggregate_timeslice(t0, cfg.pulse_rate_hz, cur, cfg.bin_sec)
       IN  /\ mf' = append(mf, agg)
           /\ t0' = t0 + cur
           /\ remaining' = remaining - cur
           /\ chunks' = Append(chunks, <<t0, cur, NSamples(cfg.pulse_rate_hz, cur)>>)
    /\ UNCHANGED <<cfg, pc, nsorted, returned, raised, storeVars, diskVars, envVars>>

\* mutant of ChunkRaise: the exception is caught and the partial store returned
ChunkRaiseReturnsPartial ==
    /\ pc = "Running"
    /\ remaining > 0
    /\ Len(chunks) < MaxChunks
    /\ LET cur == Min(cfg.chunk_sec, remaining)
           agg == aggregate_timeslice(t0, cfg.pulse_rate_hz, cur, cfg.bin_sec)
       IN  \E k \in 0 .. 3 :
             /\ mf' = (IF k = 0 THEN mf ELSE AppendUpTo(mf, agg, k))
             /\ returned' = mf'
    /\ pc' = "Aborted"
    /\ raised' = "Exception"
    /\ UNCHANGED <<cfg, t0, remaining, nsorted, chunks, storeVars, diskVars, envVars>>

\* an iteration in which _aggregate_timeslice raises (k = 0) or append raises
\* in its category block k + 1: run has no handler, the exception leaves run
ChunkRaise ==
    /\ pc = "Running"
    /\ remaining > 0
    /\ Len(chunks) < MaxChunks
    /\ LET cur == Min(cfg.chunk_sec, remaining)
           agg == aggregate_timeslice(t0, cfg.pulse_rate_hz, cur, cfg.bin_sec)
       IN  \E k \in 0 .. 3 : mf' = IF k = 0 THEN mf ELSE AppendUpTo(mf, agg, k)
    /\ pc' = "Aborted"
    /\ raised' = "Exception"
    /\ UNCHANGED <<cfg, t0, remaining, nsorted, returned, chunks, storeVars, diskVars, envVars>>

\* mutant of LoopExit: the loop is left as soon as less than a full chunk remains
LoopExitEarly ==
    /\ pc = "Running"
    /\ ~(remaining >= cfg.chunk_sec /\ remaining > 0)
    /\ pc' = "Sorting"
    /\ UNCHANGED <<cfg, mf, t0, remaining, nsorted, returned, raised, chunks, storeVars, diskVars, envVars>>

\* the loop is left
LoopExit ==
    /\ pc = "Running"
    /\ ~(remaining > 0)
    /\ pc' = "Sorting"
    /\ UNCHANGED <<cfg, mf, t0, remaining, nsorted, returned, raised, chunks, storeVars, diskVars, envVars>>

\* one iteration of the final loop: the next category table is sorted in place
SortStep ==
    /\ pc = "Sorting"
    /\ nsorted < Len(Categories)
    /\ mf' = [mf EXCEPT ![Categories[nsorted + 1]] = sort_values(@)]
    /\ nsorted' = nsorted + 1
    /\ UNCHANGED <<cfg, pc, t0, remaining, returned, raised, chunks, storeVars, diskVars, envVars>>

\* return mf
Return ==
    /\ pc = "Sorting"
    /\ nsorted = Len(Categories)
    /\ pc' = "Finished"
    /\ returned' = mf
    /\ UNCHANGED <<cfg, mf, t0, remaining, nsorted, raised, chunks, storeVars, diskVars, envVars>>

Next == Start \/ Chunk \/ ChunkRaise \/ LoopExit \/ SortStep \/ Return

\* runs of the orchestrator, over valid and invalid parameters
Spec == Init /\ [][Next]_vars

\* what an iteration of the while loop does to the locals of run
ChunkProgress ==
    /\ pc = "Running"
    /\ remaining > 0
    /\ Len(chunks) < MaxChunks
    /\ LET cur == Min(cfg.chunk_sec, remaining)
       IN  /\ t0' = t0 + cur
           /\ remaining' = remaining - cur
           /\ chunks' = Append(chunks, <<t0, cur, NSamples(cfg.pulse_rate_hz, cur)>>)

\* run is executed by one thread: an iteration of the loop that can be taken is
\* taken, and so are the steps after the loop
RunFairness ==
    /\ WF_<<t0, remaining, chunks>>(ChunkProgress)
    /\ WF_vars(LoopExit) /\ WF_vars(SortStep) /\ WF_vars(Return)

\* runs of the orchestrator that are not left waiting in the middle
SpecFair == Spec /\ RunFairness

\* a caller asks for the run in progress to stop.  Orchestrator has no field
\* and no method that takes the request, and run reads only its own locals:
\* the request changes nothing the loop looks at.
SignalTermination ==
    /\ pc = "Running"
    /\ ~signal
    /\ signal' = TRUE
    /\ UNCHANGED <<runVars, storeVars, diskVars, sweep, fl>>

NextSignal == Next \/ SignalTermination

\* runs of the orchestrator whose caller may ask them to stop
SpecSignal == Init /\ [][NextSignal]_vars

InitNamed == InitRun(NamedConfigs \cup {c \in Configs : Valid(c)})

\* runs of the orchestrator over valid parameters, the named runs among them
SpecNamed == InitNamed /\ [][Next]_vars

(***************************************************************************)
(* Clients of MetricFrame: stores built from MetricFrame() by append and   *)
(* merge.  A store is a value held under a name; append rebinds the        *)
(* category attributes of the store it is called on, merge returns a new   *)
(* store.                                                                  *)
(***************************************************************************)
MaxAppends == 3

Row1(columns, v) == [c \in Range(columns) |-> v]

\* a frame of the metric values v with the given columns and one row per time
FrameOf(columns, times, v) ==
    Frame(columns, [c \in Range(columns) |-> "float64"],
          [i \in DOMAIN times |-> [Row1(columns, Num(v)) EXCEPT !["time"] = times[i]]])

\* a frame as _aggregate_timeslice returns it
AggFrame(cat, t) ==
    Frame(AggColumns(cat), [c \in Range(AggColumns(cat)) |-> AggDtype(cat, c)],
          <<AggRow(cat, [key |-> t, size |-> 1])>>)

\* the argument tuples of the append calls made:
\*   "full":    four well-formed one-row tables
\*   "partial": physical lacks two schema columns and has one unknown column,
\*              protocol is a table without rows, the others are not given
\*   "dirty":   physical has a text in "time" that is no number, network has a
\*              numeric text in "time" and a number in "path", protocol has a row
\*              index but no column, security has two rows in decreasing time order
AppendCalls ==
    [full    |-> [cat \in CategorySet |-> AggFrame(cat, 1)],
     partial |-> [physical |-> FrameOf(<<"time", "loss_dB", "snr">>, <<Num(2)>>, 2),
                  network  |-> None,
                  protocol |-> Frame(Schema("protocol"),
                                     [c \in Range(Schema("protocol")) |-> "object"], <<>>),
                  security |-> None],
     dirty   |-> [physical |-> FrameOf(Schema("physical"), <<Text(1)>>, 3),
                  network  |-> FrameOf(Schema("network"), <<Text(NumText(3))>>, 3),
                  protocol |-> Frame(<<>>, <<>>, << <<>> >>),
                  security |-> FrameOf(Schema("security"), <<Num(5), Num(4)>>, 3)]]

CallNames == DOMAIN AppendCalls

\* the client's stores named by made are MetricFrame(), no run in progress
InitHeap(made) ==
    /\ cfg = Config(0, 0, 0, 0)
    /\ pc = "Idle"
    /\ mf = NoStore
    /\ t0 = 0
    /\ remaining = 0
    /\ nsorted = 0
    /\ returned = NoStore
    /\ raised = "none"
    /\ chunks = <<>>
    /\ heap = [s \in StoreIds |-> IF s \in made THEN MetricFrame ELSE NoStore]
    /\ lastOp = NoOp
    /\ nappends = 0
    /\ disk = NoDisk
    /\ sweep = NoSweep
    /\ signal = FALSE
    /\ fl = NoFloat

InitStore == InitHeap(InputIds)

\* heap[s].append(**AppendCalls[call])
StoreAppend(s, call) ==
    /\ heap[s] # NoStore
    /\ nappends < MaxAppends
    /\ heap' = [heap EXCEPT ![s] = append(@, AppendCalls[call])]
    /\ lastOp' = [op |-> "append", self |-> s, call |-> call]
    /\ nappends' = nappends + 1
    /\ UNCHANGED <<runVars, diskVars, envVars>>

Stores(ids) == [i \in DOMAIN ids |-> heap[ids[i]]]

\* mutant of StoreMerge: merge accumulates onto self and returns it
StoreMergeOntoSelf(s, others) ==
    /\ heap["R"] = NoStore
    /\ heap' = [heap EXCEPT !["R"] = merge(heap[s], Stores(others)),
                            ![s] = merge(heap[s], Stores(others))]
    /\ lastOp' = [op |-> "merge", self |-> s, others |-> others]
    /\ UNCHANGED <<nappends, runVars, diskVars, envVars>>

\* heap["R"] = heap[s].merge([heap[o] for o in others])
StoreMerge(s, others) ==
    /\ heap["R"] = NoStore
    /\ heap' = [heap EXCEPT !["R"] = merge(heap[s], Stores(others))]
    /\ lastOp' = [op |-> "merge", self |-> s, others |-> others]
    /\ UNCHANGED <<nappends, runVars, diskVars, envVars>>

\* the sequences of one or two stores a merge is given
OtherSeqs == {<<a>> : a \in InputIds} \cup {<<a, b>> : a \in InputIds, b \in InputIds}

NextStore ==
    \/ \E s \in StoreIds : \E call \in CallNames : StoreAppend(s, call)
    \/ \E s \in InputIds : \E others \in OtherSeqs : StoreMerge(s, others)

\* stores built by append and merge from MetricFrame()
SpecStore == InitStore /\ [][NextStore]_vars

\* the three stores merged in the three groupings:
\* A.merge([B]).merge([R]), A.merge([B.merge([R])]) and A.merge([B, R])
MergeGroupings ==
    /\ lastOp.op # "groupings"
    /\ lastOp' = [op    |-> "groupings",
                  left  |-> merge(merge(heap["A"], <<heap["B"]>>), <<heap["R"]>>),
                  right |-> merge(heap["A"], <<merge(heap["B"], <<heap["R"]>>)>>),
                  flat  |-> merge(heap["A"], <<heap["B"], heap["R"]>>)]
    /\ UNCHANGED <<heap, nappends, runVars, diskVars, envVars>>

InitAssoc == InitHeap(StoreIds)

NextAssoc ==
    \/ \E s \in StoreIds : \E call \in CallNames : StoreAppend(s, call)
    \/ MergeGroupings

\* three stores built by append from MetricFrame() and merged in every grouping
SpecAssoc == InitAssoc /\ [][NextAssoc]_vars

(***************************************************************************)
(* Persistence: MetricFrame.to_parquet, to_csv, _write; ResultWriter.write;*)
(* Orchestrator.write.  A directory holds a function from file names to    *)
(* contents; a file name is <<category, format>> ("physical.parquet" is    *)
(* <<"physical", "parquet">>).                                             *)
(***************************************************************************)
Formats == {"parquet", "csv"}

FileNames == CategorySet \X Formats

NoFile == [absent |-> TRUE]

\* a directory without files
EmptyDir == [files |-> [f \in FileNames |-> NoFile]]

\* a file this program did not write
Foreign == [fmt |-> "foreign"]

\* a directory that already holds the protocol files of an earlier producer
StaleDir ==
    [files |-> [f \in FileNames |-> IF f[1] = "protocol" THEN Foreign ELSE NoFile]]

\* the position of column c in a header
ColumnIndex(header, c) == CHOOSE j \in DOMAIN header : header[j] = c

\* one field of DataFrame.to_csv: the repr of a number, the characters of a text
\* (those of a numeric text are the repr of its number), nothing for a null
CsvField(v) ==
    CASE v[1] = "num"  -> <<"float", v[2]>>
      [] v[1] = "text" -> IF IsNumText(v[2]) THEN <<"float", v[2] - 100>>
                          ELSE <<"chars", v[2]>>
      [] OTHER         -> <<"empty", 0>>

\* df.to_csv(path, index=False): a header line and one line per row
ToCsv(df) ==
    [fmt    |-> "csv",
     header |-> df.columns,
     lines  |-> [r \in DOMAIN df.rows |->
                    [j \in DOMAIN df.columns |-> CsvField(df.rows[r][df.columns[j]])]]]

\* one field as pd.read_csv parses it
ParseField(f) ==
    CASE f[1] = "float" -> Num(f[2])
      [] f[1] = "chars" -> Text(f[2])
      [] OTHER          -> NA

\* a line pd.read_csv skips (skip_blank_lines): nothing on it
IsBlankLine(line) == Len(line) = 1 /\ line[1][1] = "empty"

\* the dtype pd.read_csv and pd.read_parquet give a column of these cells
InferDtype(cells) ==
    IF \E v \in cells : v[1] = "text" THEN "object" ELSE "float64"

\* pd.read_csv(path)
ReadCsv(file) ==
    LET lines == SelectSeq(file.lines, LAMBDA l : ~IsBlankLine(l))
        cols  == Range(file.header)
    IN  Frame(file.header,
              [c \in cols |->
                  InferDtype({ParseField(lines[r][ColumnIndex(file.header, c)]) :
                                 r \in DOMAIN lines})],
              [r \in DOMAIN lines |->
                  [c \in cols |-> ParseField(lines[r][ColumnIndex(file.header, c)])]])

\* the cells of column c other than nulls
ColumnValues(df, c) == {df.rows[r][c] : r \in DOMAIN df.rows} \ {NA}

\* the conversion of a column to an Arrow array raises: texts and numbers mixed
ArrowRaises(df, c) ==
    /\ \E v \in ColumnValues(df, c) : v[1] = "text"
    /\ \E v \in ColumnValues(df, c) : v[1] = "num"

\* the Arrow type of a column
ArrowType(df, c) ==
    IF ColumnValues(df, c) # {}
    THEN (IF \E v \in ColumnValues(df, c) : v[1] = "text" THEN "string" ELSE "double")
    ELSE CASE df.dtypes[c] = "float64" -> "double"
           [] df.dtypes[c] = "string"  -> "string"
           [] OTHER                    -> "null"

\* df.to_parquet(path, index=False), when no column raises
ToParquet(df) ==
    [fmt    |-> "parquet",
     schema |-> [j \in DOMAIN df.columns |-> <<df.columns[j], ArrowType(df, df.columns[j])>>],
     rows   |-> [r \in DOMAIN df.rows |->
                    [j \in DOMAIN df.columns |-> df.rows[r][df.columns[j]]]]]

\* pd.read_parquet(path)
ReadParquet(file) ==
    LET header == [j \in DOMAIN file.schema |-> file.schema[j][1]]
        cols   == Range(header)
    IN  Frame(header,
              [c \in cols |->
                  IF file.schema[ColumnIndex(header, c)][2] = "string" THEN "string"
                  ELSE IF file.schema[ColumnIndex(header, c)][2] = "double" THEN "float64"
                  ELSE "object"],
              [r \in DOMAIN file.rows |->
                  [c \in cols |-> file.rows[r][ColumnIndex(header, c)]]])

\* mutant of WriteRaises: an existing file is never an error
WriteRaisesNoGuard(df, dir, name, overwrite) ==
    IF name[2] = "parquet" /\ \E c \in Range(df.columns) : ArrowRaises(df, c)
    THEN "ArrowTypeError"
    ELSE "none"

\* the exception MetricFrame._write(df, path, fmt, overwrite) raises
WriteRaises(df, dir, name, overwrite) ==
    IF dir.files[name] # NoFile /\ ~overwrite THEN "FileExistsError"
    ELSE IF name[2] = "parquet" /\ \E c \in Range(df.columns) : ArrowRaises(df, c)
    THEN "ArrowTypeError"
    ELSE "none"

\* the file MetricFrame._write leaves at path when it does not raise
Serialize(df, fmt) == IF fmt = "csv" THEN ToCsv(df) ELSE ToParquet(df)

\* out_dir.mkdir(parents=True, exist_ok=True)
Mkdir(dir) == IF dir = NoDir THEN EmptyDir ELSE dir

\* mutant of WriteFrom: every target is looked at before any file is written
RECURSIVE WriteFromPrechecked(_, _, _, _, _)
WriteFromPrechecked(self, dir, fmt, overwrite, k) ==
    IF k > Len(Categories) THEN [dir |-> dir, exc |-> "none", nwritten |-> k - 1]
    ELSE LET name == <<Categories[k], fmt>>
             df   == self[Categories[k]]
             exc  == IF ~overwrite /\ \E j \in k .. Len(Categories) :
                                         dir.files[<<Categories[j], fmt>>] # NoFile
                     THEN "FileExistsError"
                     ELSE IF fmt = "parquet" /\ \E c \in Range(df.columns) : ArrowRaises(df, c)
                     THEN "ArrowTypeError"
                     ELSE "none"
         IN  IF exc # "none" THEN [dir |-> dir, exc |-> exc, nwritten |-> k - 1]
             ELSE WriteFromPrechecked(self,
                                      [dir EXCEPT !.files[name] = Serialize(df, fmt)],
                                      fmt, overwrite, k + 1)

\* the four _write calls of to_parquet / to_csv from the k-th on: the directory
\* they leave, the exception that ended them and the number of files written
RECURSIVE WriteFrom(_, _, _, _, _)
WriteFrom(self, dir, fmt, overwrite, k) ==
    IF k > Len(Categories) THEN [dir |-> dir, exc |-> "none", nwritten |-> k - 1]
    ELSE LET name == <<Categories[k], fmt>>
             exc  == WriteRaises(self[Categories[k]], dir, name, overwrite)
         IN  IF exc # "none" THEN [dir |-> dir, exc |-> exc, nwritten |-> k - 1]
             ELSE WriteFrom(self,
                            [dir EXCEPT !.files[name] = Serialize(self[Categories[k]], fmt)],
                            fmt, overwrite, k + 1)

to_parquet(self, dir, overwrite) == WriteFrom(self, Mkdir(dir), "parquet", overwrite, 1)

to_csv(self, dir, overwrite) == WriteFrom(self, Mkdir(dir), "csv", overwrite, 1)

\* ResultWriter(out_dir, fmt).write(mf, overwrite=overwrite)
ResultWriter_write(fmt, self, dir, overwrite) ==
    IF fmt = "parquet" THEN to_parquet(self, dir, overwrite)
    ELSE to_csv(self, dir, overwrite)

\* the overwrite argument of a call: not given, True or False
OverwriteArgs == {"default", "true", "false"}

\* the value of overwrite in the call: the default is True
Overwrite(arg) == arg # "false"

\* mutant of ResultWriterWrite: the written store is emptied
ResultWriterWriteFlushes(s, d, fmt, ov) ==
    /\ heap[s] # NoStore
    /\ LET res == ResultWriter_write(fmt, heap[s], disk[d], Overwrite(ov))
       IN  /\ disk' = [disk EXCEPT ![d] = res.dir]
           /\ lastOp' = [op |-> "write", via |-> "ResultWriter", self |-> s,
                         dest |-> d, fmt |-> fmt, overwrite |-> ov,
                         exc |-> res.exc, nwritten |-> res.nwritten, ret |-> "None"]
    /\ heap' = [heap EXCEPT ![s] = MetricFrame]
    /\ UNCHANGED <<nappends, runVars, envVars>>

\* ResultWriter(d, fmt).write(heap[s], overwrite=ov)
ResultWriterWrite(s, d, fmt, ov) ==
    /\ heap[s] # NoStore
    /\ LET res == ResultWriter_write(fmt, heap[s], disk[d], Overwrite(ov))
       IN  /\ disk' = [disk EXCEPT ![d] = res.dir]
           /\ lastOp' = [op |-> "write", via |-> "ResultWriter", self |-> s,
                         dest |-> d, fmt |-> fmt, overwrite |-> ov,
                         exc |-> res.exc, nwritten |-> res.nwritten, ret |-> "None"]
    /\ UNCHANGED <<heap, nappends, runVars, envVars>>

\* Orchestrator(output_dir="out").write(heap[s], fmt): overwrite is not passed
OrchestratorWrite(s, fmt) ==
    /\ heap[s] # NoStore
    /\ LET res == ResultWriter_write(fmt, heap[s], disk["out"], Overwrite("default"))
       IN  /\ disk' = [disk EXCEPT !["out"] = res.dir]
           /\ lastOp' = [op |-> "write", via |-> "Orchestrator", self |-> s,
                         dest |-> "out", fmt |-> fmt, overwrite |-> "default",
                         exc |-> res.exc, nwritten |-> res.nwritten,
                         ret |-> IF res.exc = "none" THEN "out" ELSE "None"]
    /\ UNCHANGED <<heap, nappends, runVars, envVars>>

\* the stores a client has built by append before it writes them: none of the
\* calls made, "full", "dirty", or "dirty" then "full"
BuiltStores ==
    LET full  == append(MetricFrame, AppendCalls["full"])
        dirty == append(MetricFrame, AppendCalls["dirty"])
    IN  <<MetricFrame, full, dirty, append(dirty, AppendCalls["full"])>>

\* the client holds two different stores; output_dir is absent, the other
\* directory is empty or holds files of an earlier producer
InitWrite ==
    /\ cfg = Config(0, 0, 0, 0)
    /\ pc = "Idle"
    /\ mf = NoStore
    /\ t0 = 0
    /\ remaining = 0
    /\ nsorted = 0
    /\ returned = NoStore
    /\ raised = "none"
    /\ chunks = <<>>
    /\ \E a \in {1, 2} :
          heap = [s \in StoreIds |->
                     IF s = "A" THEN BuiltStores[a]
                     ELSE IF s = "B" THEN BuiltStores[a + 2] ELSE NoStore]
    /\ lastOp = NoOp
    /\ nappends = 0
    /\ disk \in {[d \in Dests |-> IF d = "out" THEN NoDir ELSE a] :
                    a \in {EmptyDir, StaleDir}}
    /\ sweep = NoSweep
    /\ signal = FALSE
    /\ fl = NoFloat

NextWrite ==
    \/ \E s \in InputIds : \E d \in Dests : \E fmt \in Formats : \E ov \in OverwriteArgs :
          ResultWriterWrite(s, d, fmt, ov)
    \/ \E s \in InputIds : \E fmt \in Formats : OrchestratorWrite(s, fmt)

\* stores built by append, written to the destinations
SpecWrite == InitWrite /\ [][NextWrite]_vars

(***************************************************************************)
(* scripts/sweep.py: main builds a task list from the built-in grid or from *)
(* a grid YAML and calls _worker on every task, one after the other or in  *)
(* a process pool.  A built-in tag is kept as the pair its text is          *)
(* formatted from (the format is one-to-one on pairs); a YAML tag is a text.*)
(***************************************************************************)
\* the values of --pulse-rate and --duration (nargs="*": any list, repeats
\* included)
PulseRateArgs == {<<1000>>, <<1000, 2000>>, <<1000, 1000>>}

DurationArgs == {<<1>>, <<1, 2>>}

\* the "tag" entries of the overrides of a grid YAML (None: no tag given)
OverrideTags ==
    {<<"None">>, <<"a", "b">>, <<"a", "a">>, <<"None", "None">>,
     <<"None", "run_001">>, <<"run_001", "None">>, <<"a", "None", "b">>}

\* f"pr{pr}_du{str(du).replace('.', 'p')}"
GridTag(pr, du) == <<"pr", pr, "du", du>>

\* f"run_{idx:03d}"
RunTag(idx) ==
    CASE idx = 0 -> "run_000"
      [] idx = 1 -> "run_001"
      [] idx = 2 -> "run_002"

\* _iter_builtin_grid: one task per element of itertools.product(prs, dus)
iter_builtin_grid(prs, dus) ==
    [k \in 1 .. Len(prs) * Len(dus) |->
        GridTag(prs[((k - 1) \div Len(dus)) + 1], dus[((k - 1) % Len(dus)) + 1])]

\* _iter_yaml_grid: tag = it.get("tag") or f"run_{idx:03d}", idx from 0
iter_yaml_grid(items) ==
    [k \in DOMAIN items |-> IF items[k] = "None" THEN RunTag(k - 1) ELSE items[k]]

\* main up to the task list: pool is args.workers > 1
Sweep(kind, pool, tags) ==
    [kind |-> kind, pool |-> pool, tags |-> tags,
     pcs |-> [i \in DOMAIN tags |-> "queued"],
     stores |-> [i \in DOMAIN tags |-> 0],
     nstores |-> 0,
     artifacts |-> [t \in Range(tags) |-> <<>>]]

InitSweep ==
    /\ cfg = Config(0, 0, 0, 0)
    /\ pc = "Idle"
    /\ mf = NoStore
    /\ t0 = 0
    /\ remaining = 0
    /\ nsorted = 0
    /\ returned = NoStore
    /\ raised = "none"
    /\ chunks = <<>>
    /\ heap = [s \in StoreIds |-> NoStore]
    /\ lastOp = NoOp
    /\ nappends = 0
    /\ disk = NoDisk
    /\ signal = FALSE
    /\ fl = NoFloat
    /\ \E pool \in BOOLEAN :
          \/ \E prs \in PulseRateArgs : \E dus \in DurationArgs :
                sweep = Sweep("builtin", pool, iter_builtin_grid(prs, dus))
          \/ \E items \in OverrideTags :
                sweep = Sweep("yaml", pool, iter_yaml_grid(items))

\* _worker(task i) up to the end of the scenario's orch.run(): run_dir is
\* out_root / tag, run creates the task's MetricFrame.  Without a pool the
\* tasks are taken in list order, each after the one before has returned.
WorkerRun(i) ==
    /\ sweep.kind # "none"
    /\ sweep.pcs[i] = "queued"
    /\ sweep.pool \/ \A j \in 1 .. i - 1 : sweep.pcs[j] = "done"
    /\ sweep' = [sweep EXCEPT !.pcs[i] = "running",
                              !.stores[i] = sweep.nstores + 1,
                              !.nstores = @ + 1]
    /\ UNCHANGED <<runVars, storeVars, diskVars, signal, fl>>

\* the rest of _worker(task i): orch.write(mf, fmt="parquet") puts the four
\* files into out_root / tag, whatever is there
WorkerWrite(i) ==
    /\ sweep.kind # "none"
    /\ sweep.pcs[i] = "running"
    /\ sweep' = [sweep EXCEPT !.pcs[i] = "done",
                              !.artifacts[sweep.tags[i]] = Append(@, i)]
    /\ UNCHANGED <<runVars, storeVars, diskVars, signal, fl>>

NextSweep ==
    \/ \E i \in DOMAIN sweep.tags : WorkerRun(i)
    \/ \E i \in DOMAIN sweep.tags : WorkerWrite(i)

\* the tasks of one sweep
SpecSweep == InitSweep /\ [][NextSweep]_vars

(***************************************************************************)
(* The while loop of Orchestrator.run in the arithmetic Python executes it *)
(* in: t0, remaining and cur are binary64 floats.  A float x >= 0 is the   *)
(* pair <<hi, lo>> with x = (hi * Limb + lo) * 2^-56 second, 0 <= lo <     *)
(* Limb; every float met here is such a multiple below 4 seconds.  This    *)
(* specification follows the locals of the loop only; the tables an        *)
(* iteration appends are those of Chunk.                                   *)
(***************************************************************************)
MaxFloatChunks == 12

Limb == 2^29

\* binary64 has a 53-bit significand
F64Bits == 53

RECURSIVE BitLen(_)
BitLen(x) == IF x = 0 THEN 0 ELSE 1 + BitLen(x \div 2)

\* the float a decimal literal denotes
Float64(literal) ==
    CASE literal = "0.1"  -> <<13421772, 429496730>>    \* 0x1.999999999999ap-4
      [] literal = "0.2"  -> <<26843545, 322122548>>    \* 0x1.999999999999ap-3
      [] literal = "0.25" -> <<33554432, 0>>            \* 0x1.0p-2
      [] literal = "0.3"  -> <<40265318, 214748364>>    \* 0x1.3333333333333p-2
      [] literal = "0.5"  -> <<67108864, 0>>            \* 0x1.0p-1
      [] literal = "0.6"  -> <<80530636, 429496728>>    \* 0x1.3333333333333p-1
      [] literal = "0.7"  -> <<93952409, 322122544>>    \* 0x1.6666666666666p-1
      [] literal = "0.9"  -> <<120795955, 107374184>>   \* 0x1.ccccccccccccdp-1
      [] literal = "1.0"  -> <<134217728, 0>>           \* 0x1.0p+0

FloatZero == <<0, 0>>

\* the pair of a sum of limbs: the carry or the borrow is moved to hi
Carry(hi, lo) ==
    IF lo < 0 THEN <<hi - 1, lo + Limb>> ELSE <<hi + lo \div Limb, lo % Limb>>

\* an exact value rounded to binary64: to 53 significant bits, to nearest, ties
\* to even
Float64Round(v) ==
    LET drop == BitLen(v[1]) + (BitLen(Limb) - 1) - F64Bits
        q    == 2^drop
        low  == v[2] % q
        base == v[2] - low
    IN  IF drop <= 0 THEN v
        ELSE IF 2 * low > q \/ (2 * low = q /\ (base \div q) % 2 = 1)
             THEN Carry(v[1], base + q)
             ELSE <<v[1], base>>

\* a + b and a - b (a >= b) of floats
FloatAdd(a, b) == Float64Round(Carry(a[1] + b[1], a[2] + b[2]))

FloatSub(a, b) == Float64Round(Carry(a[1] - b[1], a[2] - b[2]))

FloatLess(a, b) == a[1] < b[1] \/ (a[1] = b[1] /\ a[2] < b[2])

\* min(a, b) of Python: b when b < a, else a
FloatMin(a, b) == IF FloatLess(b, a) THEN b ELSE a

\* durations and chunk widths of the runs followed
FloatDurations == {"0.3", "0.5", "0.6", "0.7", "0.9", "1.0"}

FloatChunkWidths == {"0.1", "0.2", "0.25", "0.3"}

InitFloat ==
    /\ cfg = Config(0, 0, 0, 0)
    /\ pc = "Idle"
    /\ mf = NoStore
    /\ t0 = 0
    /\ remaining = 0
    /\ nsorted = 0
    /\ returned = NoStore
    /\ raised = "none"
    /\ chunks = <<>>
    /\ heap = [s \in StoreIds |-> NoStore]
    /\ lastOp = NoOp
    /\ nappends = 0
    /\ disk = NoDisk
    /\ sweep = NoSweep
    /\ signal = FALSE
    /\ \E d \in FloatDurations : \E c \in FloatChunkWidths :
          fl = [pc |-> "Idle", duration_s |-> Float64(d), chunk_sec |-> Float64(c),
                t0 |-> FloatZero, remaining |-> FloatZero, chunks |-> <<>>]

\* t0 = 0.0; remaining = float(self.duration_s)
FloatStart ==
    /\ fl.pc = "Idle"
    /\ fl' = [fl EXCEPT !.pc = "Running", !.t0 = FloatZero, !.remaining = fl.duration_s]
    /\ UNCHANGED <<runVars, storeVars, diskVars, sweep, signal>>

\* one iteration: cur = min(chunk_sec, remaining); t0 += cur; remaining -= cur
FloatChunk ==
    /\ fl.pc = "Running"
    /\ FloatLess(FloatZero, fl.remaining)
    /\ Len(fl.chunks) < MaxFloatChunks
    /\ LET cur == FloatMin(fl.chunk_sec, fl.remaining)
       IN  fl' = [fl EXCEPT !.chunks = Append(@, <<fl.t0, cur>>),
                            !.t0 = FloatAdd(fl.t0, cur),
                            !.remaining = FloatSub(fl.remaining, cur)]
    /\ UNCHANGED <<runVars, storeVars, diskVars, sweep, signal>>

\* remaining > 0.0 is false: the loop is left
FloatLoopExit ==
    /\ fl.pc = "Running"
    /\ ~FloatLess(FloatZero, fl.remaining)
    /\ fl' = [fl EXCEPT !.pc = "Exited"]
    /\ UNCHANGED <<runVars, storeVars, diskVars, sweep, signal>>

NextFloat == FloatStart \/ FloatChunk \/ FloatLoopExit

\* the while loop of run in binary64
SpecFloat == InitFloat /\ [][NextFloat]_vars

(***************************************************************************)
(* Properties of Orchestrator.run                                          *)
(***************************************************************************)
\* the "time" column of a table, as a sequence of numbers
Times(df) == [i \in DOMAIN df.rows |-> df.rows[i]["time"][2]]

NonDecreasing(s) == \A i, j \in DOMAIN s : i < j => s[i] <= s[j]

\* C1: for valid (rate, duration, bin_width, chunk_width), after run returns the
\* "time" column of each of the four category tables is non-decreasing.
C1_TimeNonDecreasing ==
    (pc = "Finished" /\ Valid(cfg)) =>
        \A cat \in CategorySet : NonDecreasing(Times(returned[cat]))

\* C1 witness: a finished valid run in which a row of a later chunk lies before
\* a row of an earlier chunk (a time below the later chunk's start that is no bin
\* edge of the earlier chunk).
C1_Witness ==
    /\ pc = "Finished"
    /\ Valid(cfg)
    /\ \E k \in DOMAIN chunks : \E i \in DOMAIN returned["physical"].rows :
         LET t == Times(returned["physical"])[i]
         IN  /\ k > 1
             /\ chunks[k - 1][1] < t
             /\ t < chunks[k][1]
             /\ (t - chunks[k - 1][1]) % cfg.bin_sec # 0

\* C2: with a violated precondition (rate <= 0, duration <= 0, bin_width <= 0 or
\* chunk_width <= 0) run raises before any chunk is generated, goes Idle -> Aborted
\* and returns no store: it processes no chunk, never reaches its final sort and
\* returns nothing.
C2_InvalidRunAborts ==
    ~Valid(cfg) =>
        /\ chunks = <<>>
        /\ pc \notin {"Sorting", "Finished"}
        /\ returned = NoStore

\* C3: when generation, aggregation or append fails in a chunk, run returns no
\* store at all, in particular not the store of the chunks completed before.
C3_FailureReturnsNoStore ==
    raised # "none" => (pc = "Aborted" /\ returned = NoStore)

\* C3 witness: a run aborted after a completed chunk, whose local store holds rows.
C3_Witness ==
    /\ pc = "Aborted"
    /\ raised # "none"
    /\ Len(chunks) >= 1
    /\ Len(mf["physical"].rows) >= 1

\* C10: run(rate=1_000_000, duration=0.02, bin_width=0.01, chunk_width=0.01)
\* returns exactly 2 rows in every category, with times 0.0 and 0.01.
C10_TwoBins ==
    (pc = "Finished" /\ cfg = Config(1000000, 20, 10, 10)) =>
        \A cat \in CategorySet : Times(returned[cat]) = <<0, 10>>

(***************************************************************************)
(* Properties of MetricFrame.append and MetricFrame.merge                  *)
(***************************************************************************)
Live == {s \in StoreIds : heap[s] # NoStore}

\* the step is the call heap[s].append(**AppendCalls[call])
IsAppendStep(s, call) ==
    /\ nappends' = nappends + 1
    /\ lastOp' = [op |-> "append", self |-> s, call |-> call]

\* the step is a call of merge
IsMergeStep == heap["R"] = NoStore /\ heap'["R"] # NoStore

NotGiven(arg) == arg = None \/ IsEmpty(arg)

\* C4: appending an empty table (or no table) to a category is a no-op in every
\* reachable store state: the category's rows, their order and their number are
\* unchanged (and the call returns normally).
C4_EmptyAppendNoOp ==
    [][\A s \in StoreIds : \A call \in CallNames : \A cat \in CategorySet :
          (IsAppendStep(s, call) /\ NotGiven(AppendCalls[call][cat]))
              => (heap'[s][cat] = heap[s][cat] /\ raised' = "none")]_vars

\* C4 witness: an append was made with an empty table for a category whose
\* stored table has rows, and with None for another such category.
C4_Witness ==
    /\ lastOp.op = "append"
    /\ \E c1, c2 \in CategorySet :
         /\ AppendCalls[lastOp.call][c1] = None
         /\ AppendCalls[lastOp.call][c2] # None
         /\ IsEmpty(AppendCalls[lastOp.call][c2])
         /\ Len(heap[lastOp.self][c1].rows) > 0
         /\ Len(heap[lastOp.self][c2].rows) > 0

\* the last k elements of a sequence
LastRows(s, k) == SubSeq(s, Len(s) - k + 1, Len(s))

\* C5: after any sequence of appends on a store created empty, each category
\* table's column set and order equal the category's schema; a column missing
\* from an incoming table is in the stored rows, filled with the null marker; a
\* column not in the schema is in no stored row.
C5_SchemaKept ==
    /\ \A s \in Live : \A cat \in CategorySet :
         /\ heap[s][cat].columns = Schema(cat)
         /\ \A r \in DOMAIN heap[s][cat].rows :
              DOMAIN heap[s][cat].rows[r] = Range(Schema(cat))
    /\ lastOp.op = "append" =>
         \A cat \in CategorySet :
            LET arg == AppendCalls[lastOp.call][cat]
                tbl == heap[lastOp.self][cat]
            IN  ~NotGiven(arg) =>
                  /\ Len(tbl.rows) >= Len(arg.rows)
                  /\ \A r \in DOMAIN arg.rows :
                     \A c \in Range(Schema(cat)) \ Range(arg.columns) :
                        LastRows(tbl.rows, Len(arg.rows))[r][c] = NA

\* C5 witness: the last append gave a table that lacks schema columns and has an
\* unknown column, to a category that already had a row.
C5_Witness ==
    /\ lastOp.op = "append"
    /\ \E cat \in CategorySet :
         LET arg == AppendCalls[lastOp.call][cat]
         IN  /\ ~NotGiven(arg)
             /\ Range(Schema(cat)) \ Range(arg.columns) # {}
             /\ Range(arg.columns) \ Range(Schema(cat)) # {}
             /\ Len(heap[lastOp.self][cat].rows) > Len(arg.rows)

\* C6: when append cannot coerce an incoming table's values to the category's
\* column types a SchemaError is raised; uncoercible data is never stored: no
\* column of a numeric schema type holds a text.
C6_UncoercibleNeverStored ==
    \A s \in Live : \A cat \in CategorySet : \A r \in DOMAIN heap[s][cat].rows :
       \A c \in Range(heap[s][cat].columns) :
          SchemaDtype(cat, c) = "float64" => heap[s][cat].rows[r][c][1] # "text"

RECURSIVE SumLen(_, _)
SumLen(ids, cat) ==
    IF ids = <<>> THEN 0 ELSE Len(heap[ids[1]][cat].rows) + SumLen(Tail(ids), cat)

RECURSIVE ConcatRows(_, _)
ConcatRows(ids, cat) ==
    IF ids = <<>> THEN <<>> ELSE heap[ids[1]][cat].rows \o ConcatRows(Tail(ids), cat)

\* C7: merging stores yields a store whose row count in each category is the sum
\* of the inputs' row counts in that category: no row dropped, none duplicated.
C7_MergeRowCount ==
    lastOp.op = "merge" =>
        \A cat \in CategorySet :
           Len(heap["R"][cat].rows) = SumLen(<<lastOp.self>> \o lastOp.others, cat)

\* C7 witness: two different stores with rows were merged.
C7_Witness ==
    /\ lastOp.op = "merge"
    /\ Len(lastOp.others) = 1
    /\ lastOp.others[1] # lastOp.self
    /\ Len(heap[lastOp.self]["physical"].rows) >= 2
    /\ Len(heap[lastOp.others[1]]["physical"].rows) >= 1

\* C8: merge returns a new store whose rows are, per category, the rows of the
\* receiver then of each store of the argument, in argument order; no input
\* store is modified by merge or by a later append to the result.
C8_MergeFreshInOrder ==
    [][/\ IsMergeStep =>
            /\ \A s \in InputIds : heap'[s] = heap[s]
            /\ \A cat \in CategorySet :
                 heap'["R"][cat].rows = ConcatRows(<<lastOp'.self>> \o lastOp'.others, cat)
       /\ \A call \in CallNames :
            IsAppendStep("R", call) => \A s \in InputIds : heap'[s] = heap[s]]_vars

\* C8 witness: a merge of stores with rows was followed by an append of rows to
\* its result.
C8_Witness ==
    /\ lastOp = [op |-> "append", self |-> "R", call |-> "full"]
    /\ \A s \in InputIds : Len(heap[s]["physical"].rows) >= 1
    /\ Len(heap["R"]["physical"].rows) >= 3

StoreRows(st) == [cat \in CategorySet |-> st[cat].rows]

\* C9: merge is associative on rows and their order: (A merge B) merge C and
\* A merge (B merge C) hold, per category, the rows of A.merge([B, C]) in the
\* same order (swapping A and B changes the order: merge is not commutative).
C9_MergeAssociative ==
    lastOp.op = "groupings" =>
        /\ StoreRows(lastOp.left) = StoreRows(lastOp.flat)
        /\ StoreRows(lastOp.right) = StoreRows(lastOp.flat)

\* C9 witness: three stores with rows were merged in the three groupings, and
\* the first two give different row orders when merged in the two orders.
C9_Witness ==
    /\ lastOp.op = "groupings"
    /\ \A s \in StoreIds : Len(heap[s]["physical"].rows) >= 1
    /\ Len(lastOp.flat["physical"].rows) >= 3
    /\ StoreRows(merge(heap["A"], <<heap["B"]>>)) # StoreRows(merge(heap["B"], <<heap["A"]>>))

(***************************************************************************)
(* Properties of the chunks of a run                                       *)
(***************************************************************************)
\* the aggregated tables of chunk k of the run
ChunkTables(k) ==
    aggregate_timeslice(chunks[k][1], cfg.pulse_rate_hz, chunks[k][2], cfg.bin_sec)

\* C11: a chunk shorter than one bin width that holds at least one sample gives
\* exactly one bin row per category, never zero (so does the only chunk of
\* run(1_000_000, 0.005, 0.01, 0.01)).
C11_ShortChunkOneBin ==
    Valid(cfg) =>
        \A k \in DOMAIN chunks :
           (chunks[k][2] < cfg.bin_sec /\ chunks[k][3] >= 1)
               => \A cat \in CategorySet : Len(ChunkTables(k)[cat].rows) = 1

Sampled == \E k \in DOMAIN chunks : chunks[k][3] >= 1

HasTime(st) == \A cat \in CategorySet : "time" \in Range(st[cat].columns)

\* C12 as stated: for every run with valid parameters the returned store has
\* non-empty physical, protocol and security tables and a "time" column in each
\* of its four tables.
C12_AlwaysNonEmpty ==
    (pc = "Finished" /\ Valid(cfg)) =>
        /\ HasTime(returned)
        /\ \A cat \in {"physical", "protocol", "security"} : ~IsEmpty(returned[cat])

\* C12 amended: for every run with valid parameters the four returned tables
\* have a "time" column, and the physical, protocol and security tables are
\* non-empty when some chunk holds a sample (round(rate * width) >= 1); a run
\* whose chunks all hold no sample returns four empty tables.
C12_NonEmptyWhenSampled ==
    (pc = "Finished" /\ Valid(cfg)) =>
        /\ HasTime(returned)
        /\ \A cat \in {"physical", "protocol", "security"} :
              IsEmpty(returned[cat]) <=> ~Sampled

\* C12 witness: a valid run of several chunks, each shorter than a bin and
\* holding samples, has returned.
C12_Witness ==
    /\ pc = "Finished" /\ Valid(cfg)
    /\ Len(chunks) >= 2
    /\ \A k \in DOMAIN chunks : chunks[k][2] < cfg.bin_sec /\ chunks[k][3] >= 1
    /\ ~IsEmpty(returned["physical"])

RECURSIVE ArrivalRows(_, _)
\* the rows of a category in the order the first k chunks appended them
ArrivalRows(cat, k) ==
    IF k = 0 THEN <<>> ELSE ArrivalRows(cat, k - 1) \o ChunkTables(k)[cat].rows

\* rows is arrival sorted by time, rows of equal time in arrival order
StablySorted(rows, arrival) ==
    /\ Len(rows) = Len(arrival)
    /\ \A i, j \in DOMAIN rows : i < j => ~TimeBefore(rows[j], rows[i])
    /\ \A r \in DOMAIN arrival :
          LET t == arrival[r]["time"]
          IN  SelectSeq(rows, LAMBDA x : x["time"] = t)
                = SelectSeq(arrival, LAMBDA x : x["time"] = t)

\* C13: the final sort is stable and made once per category after the last
\* chunk: while sorting, the categories not yet reached hold their rows in
\* arrival order and the others hold them stably sorted (equal times keep
\* arrival order, earlier chunk first); run is Finished and returns the store
\* only after all four categories are sorted.
C13_StableSortOnce ==
    /\ pc \in {"Sorting", "Finished"} =>
         /\ ~(remaining > 0)
         /\ \A j \in DOMAIN Categories :
               LET cat     == Categories[j]
                   arrival == ArrivalRows(cat, Len(chunks))
               IN  IF j <= nsorted THEN StablySorted(mf[cat].rows, arrival)
                   ELSE mf[cat].rows = arrival
    /\ pc = "Finished" => (nsorted = Len(Categories) /\ returned = mf)
    /\ pc # "Finished" => returned = NoStore

\* C13 witness: a run has returned a table with two different rows of equal
\* time, from different chunks, the earlier chunk's row first.
C13_Witness ==
    /\ pc = "Finished"
    /\ \E i \in DOMAIN returned["physical"].rows :
          /\ i > 1
          /\ returned["physical"].rows[i]["time"] = returned["physical"].rows[i - 1]["time"]
          /\ returned["physical"].rows[i] # returned["physical"].rows[i - 1]
          /\ returned["physical"].rows[i - 1] = ChunkTables(1)["physical"].rows[1]

RECURSIVE SumWidths(_)
SumWidths(k) == IF k = 0 THEN 0 ELSE SumWidths(k - 1) + chunks[k][2]

\* C20: each loop iteration takes cur = min(chunk_width, remaining), aggregates
\* the slice of width cur starting at t0, appends its four tables, then adds
\* cur to t0 and subtracts it from remaining; every chunk but possibly the last
\* has width chunk_width, the last has exactly the remaining duration, and no
\* iteration runs with remaining <= 0.
C20_LoopStep ==
    [][(pc = "Running" /\ pc' = "Running" /\ chunks' # chunks) =>
          LET cur == IF cfg.chunk_sec <= remaining THEN cfg.chunk_sec ELSE remaining
              k   == Len(chunks')
          IN  /\ remaining > 0
              /\ k = Len(chunks) + 1
              /\ chunks'[k][1] = t0 /\ chunks'[k][2] = cur
              /\ t0 = SumWidths(Len(chunks))
              /\ mf' = append(mf, aggregate_timeslice(t0, cfg.pulse_rate_hz, cur, cfg.bin_sec))
              /\ t0' = t0 + cur
              /\ remaining' = remaining - cur
              /\ \A j \in 1 .. k - 1 : chunks'[j][2] = cfg.chunk_sec
              /\ cur # cfg.chunk_sec => (cur = remaining /\ remaining' = 0)]_vars

\* C20 witness: the third chunk of a run was truncated to the remaining
\* duration and nothing remains.
C20_Witness ==
    /\ pc = "Running"
    /\ Len(chunks) = 3
    /\ chunks[3][2] < cfg.chunk_sec
    /\ chunks[3][2] > 0
    /\ remaining = 0

(***************************************************************************)
(* Properties of persistence                                               *)
(***************************************************************************)
\* the file of a category and format in a destination (NoFile when the
\* directory or the file does not exist)
FileAt(dk, d, cat, fmt) ==
    IF dk[d] = NoDir THEN NoFile ELSE dk[d].files[<<cat, fmt>>]

\* the store s is in directory d in format fmt: its four files, as written
Persisted(dk, d, s, fmt) ==
    \A cat \in CategorySet : FileAt(dk, d, cat, fmt) = Serialize(heap[s][cat], fmt)

\* the step is a call of write
IsWriteStep == lastOp'.op = "write"

\* C14: after a store was written to a destination, a write to the same
\* destination in the same format with overwrite=False fails with the
\* persistence error of the code (FileExistsError) and writes nothing: every
\* file of the destination has the content it had before.
C14_SecondWriteFails ==
    [][\A d \in Dests : \A fmt \in Formats :
          (/\ IsWriteStep
           /\ lastOp'.dest = d /\ lastOp'.fmt = fmt /\ lastOp'.overwrite = "false"
           /\ \E s \in InputIds : Persisted(disk, d, s, fmt))
              => (/\ lastOp'.exc = "FileExistsError"
                  /\ lastOp'.nwritten = 0
                  /\ disk' = disk)]_vars

\* C14 witness: a write with overwrite=False of one store has failed on a
\* destination that holds the four files of the other store.
C14_Witness ==
    /\ lastOp.op = "write" /\ lastOp.overwrite = "false"
    /\ lastOp.exc = "FileExistsError"
    /\ \E s \in InputIds :
          /\ s # lastOp.self
          /\ Persisted(disk, lastOp.dest, s, lastOp.fmt)
          /\ ~Persisted(disk, lastOp.dest, lastOp.self, lastOp.fmt)

\* C15: with overwrite false, write goes through physical, network, protocol,
\* security in this order and fails at the first category whose file exists,
\* without modifying that file; the files of the categories before it have been
\* written, those after it are not: a partial artifact set can remain.
C15_FailsAtFirstExisting ==
    [][(IsWriteStep /\ lastOp'.overwrite = "false") =>
          LET d   == lastOp'.dest
              fmt == lastOp'.fmt
              n   == lastOp'.nwritten
              st  == heap[lastOp'.self]
              Old(j) == FileAt(disk, d, Categories[j], fmt)
              New(j) == FileAt(disk', d, Categories[j], fmt)
          IN  /\ \A j \in 1 .. n : Old(j) = NoFile /\ New(j) = Serialize(st[Categories[j]], fmt)
              /\ \A j \in n + 1 .. Len(Categories) : New(j) = Old(j)
              /\ lastOp'.exc = "FileExistsError" <=>
                    (n < Len(Categories) /\ Old(n + 1) # NoFile)
              /\ lastOp'.exc = "none" <=> n = Len(Categories)]_vars

\* C15 witness: a write with overwrite false has failed at protocol: physical
\* and network are written, protocol is the file found, security is absent.
C15_Witness ==
    /\ lastOp.op = "write" /\ lastOp.overwrite = "false"
    /\ lastOp.exc = "FileExistsError" /\ lastOp.nwritten = 2
    /\ FileAt(disk, lastOp.dest, "physical", lastOp.fmt)
          = Serialize(heap[lastOp.self]["physical"], lastOp.fmt)
    /\ FileAt(disk, lastOp.dest, "protocol", lastOp.fmt) = Foreign
    /\ FileAt(disk, lastOp.dest, "security", lastOp.fmt) = NoFile

\* to_parquet / to_csv can serialize the store
Serializable(st, fmt) ==
    fmt = "csv" \/ \A cat \in CategorySet : \A c \in Range(st[cat].columns) :
                      ~ArrowRaises(st[cat], c)

\* C16: a write, successful or failed, leaves the in-memory store unchanged;
\* after a write that failed on an existing file, a retry of the same store
\* with overwrite enabled, or to another destination without such files,
\* persists exactly that store.
C16_StoreKeptRetryWorks ==
    [][IsWriteStep =>
          /\ heap' = heap
          /\ (/\ lastOp.op = "write" /\ lastOp.exc = "FileExistsError"
              /\ lastOp'.self = lastOp.self /\ lastOp'.fmt = lastOp.fmt
              /\ Serializable(heap[lastOp.self], lastOp.fmt)
              /\ \/ lastOp'.overwrite # "false"
                 \/ /\ lastOp'.dest # lastOp.dest
                    /\ \A cat \in CategorySet :
                          FileAt(disk, lastOp'.dest, cat, lastOp'.fmt) = NoFile)
                => (/\ lastOp'.exc = "none"
                    /\ Persisted(disk', lastOp'.dest, lastOp'.self, lastOp'.fmt))]_vars

\* C16 witness: a store with rows was written with overwrite enabled over the
\* file a failed write had stopped at.
C16_Witness ==
    /\ lastOp.op = "write" /\ lastOp.overwrite = "true" /\ lastOp.exc = "none"
    /\ lastOp.dest = "alt"
    /\ \E fmt \in Formats : fmt # lastOp.fmt /\ FileAt(disk, "alt", "protocol", fmt) = Foreign
    /\ Len(heap[lastOp.self]["physical"].rows) >= 1
    /\ Persisted(disk, "alt", lastOp.self, lastOp.fmt)

\* C17: a persisted category file is never modified by a later write to the
\* same destination unless the caller explicitly requested overwrite for that
\* write (also for Orchestrator.write and ResultWriter.write with their default
\* arguments).
C17_NoSilentOverwrite ==
    [][\A d \in Dests : \A cat \in CategorySet : \A fmt \in Formats :
          (FileAt(disk, d, cat, fmt) \notin {NoFile, Foreign}
             /\ FileAt(disk', d, cat, fmt) # FileAt(disk, d, cat, fmt))
              => lastOp'.overwrite = "true"]_vars

\* the directory holds exactly four files, one per category
FourFiles(dir) ==
    /\ dir # NoDir
    /\ \A cat \in CategorySet :
          Cardinality({fmt \in Formats : dir.files[<<cat, fmt>>] # NoFile}) = 1

\* C18: after any sequence of successful writes to a destination that was
\* absent or empty at first, the directory exists and holds exactly four
\* files, one per category under its fixed name, each with "time" as first
\* column; Orchestrator.write returns the destination path.
C18_ExactlyFourFiles ==
    [][\A d \in Dests :
          (/\ IsWriteStep /\ lastOp'.dest = d /\ lastOp'.exc = "none"
           /\ disk[d] \in {NoDir, EmptyDir} \/ FourFiles(disk[d]))
              => (/\ FourFiles(disk'[d])
                  /\ lastOp'.via = "Orchestrator" => lastOp'.ret = d)]_vars

\* pd.read_parquet / pd.read_csv of a file of the given format
ReadBack(file, fmt) == IF fmt = "csv" THEN ReadCsv(file) ELSE ReadParquet(file)

\* C19: round trip: for any store, writing it and reading each of the four
\* category files back gives, per category, the row count and the column names
\* and order of the in-memory table, in the columnar and in the text format.
C19_RoundTrip ==
    (lastOp.op = "write" /\ lastOp.overwrite # "false") =>
        \A cat \in CategorySet :
           LET file == FileAt(disk, lastOp.dest, cat, lastOp.fmt)
               df   == heap[lastOp.self][cat]
           IN  /\ lastOp.exc = "none"
               /\ file \notin {NoFile, Foreign}
               /\ Len(ReadBack(file, lastOp.fmt).rows) = Len(df.rows)
               /\ ReadBack(file, lastOp.fmt).columns = df.columns

(***************************************************************************)
(* Further properties of MetricFrame.append                                *)
(***************************************************************************)
\* the cell of column c of an incoming row once stored under category cat:
\* the cell as given, or its cast to the schema's type
StoredAs(v, cat, c) == {v, Astype(v, SchemaDtype(cat, c))}

\* C21: append of a non-empty table preserves arrival order and does not sort:
\* after the call the category's table is its previous rows, unchanged and in
\* their previous order, followed by the incoming rows in their incoming order;
\* a category for which no table is given is unchanged.
C21_AppendKeepsArrivalOrder ==
    [][\A s \in StoreIds : \A call \in CallNames : \A cat \in CategorySet :
          IsAppendStep(s, call) =>
             LET arg == AppendCalls[call][cat]
                 old == heap[s][cat].rows
                 new == heap'[s][cat].rows
             IN  IF arg = None THEN heap'[s][cat] = heap[s][cat]
                 ELSE IsEmpty(arg) \/
                      /\ Len(new) = Len(old) + Len(arg.rows)
                      /\ SubSeq(new, 1, Len(old)) = old
                      /\ \A i \in DOMAIN arg.rows :
                         \A c \in Range(Schema(cat)) \cap Range(arg.columns) :
                            new[Len(old) + i][c] \in StoredAs(arg.rows[i][c], cat, c)]_vars

\* C21 witness: two rows in decreasing time order were appended to a category
\* that already held a row of a smaller time; the table is not in time order.
C21_Witness ==
    /\ lastOp.op = "append"
    /\ \E cat \in CategorySet :
         LET arg == AppendCalls[lastOp.call][cat]
             tbl == heap[lastOp.self][cat]
         IN  /\ arg # None
             /\ Len(arg.rows) = 2
             /\ Len(tbl.rows) > 2
             /\ ~NonDecreasing(Times(tbl))

(***************************************************************************)
(* Further properties of the chunks of a run                               *)
(***************************************************************************)
\* the step is an iteration of the chunk loop that ran to its end
IsChunkStep == pc = "Running" /\ pc' = "Running" /\ chunks' # chunks

\* C22: when round(rate * slice_width) <= 0 for a chunk, the aggregator returns
\* four empty tables with the category columns, the chunk contributes zero rows
\* to every category, and the loop still advances t0 and remaining by the chunk
\* width.
C22_EmptyChunkAdvances ==
    [][(IsChunkStep /\ chunks'[Len(chunks')][3] <= 0) =>
          LET cur == chunks'[Len(chunks')][2]
              agg == aggregate_timeslice(t0, cfg.pulse_rate_hz, cur, cfg.bin_sec)
          IN  /\ \A cat \in CategorySet :
                    /\ agg[cat].rows = <<>>
                    /\ agg[cat].columns = Schema(cat)
                    /\ mf'[cat].rows = mf[cat].rows
              /\ t0' = t0 + cur
              /\ remaining' = remaining - cur]_vars

\* C22 witness: the third chunk of a valid run, truncated, holds no sample and
\* was stepped over; the tables keep the rows of the first two chunks.
C22_Witness ==
    /\ pc = "Running" /\ Valid(cfg)
    /\ Len(chunks) = 3
    /\ chunks[1][3] >= 1 /\ chunks[2][3] >= 1
    /\ chunks[3][3] <= 0 /\ chunks[3][2] > 0
    /\ t0 = cfg.duration_s /\ remaining = 0
    /\ \A cat \in CategorySet : Len(mf[cat].rows) >= 2

\* the bin edge the code computes for sample i of chunk k
SampleEdge(k, i) ==
    LET startT == Ticks(chunks[k][1], UnitsPerSec)
        binT   == Ticks(cfg.bin_sec, UnitsPerSec)
    IN  BinIndex(SampleTime(F32(startT), i, cfg.pulse_rate_hz), startT, binT)
            * cfg.bin_sec + chunks[k][1]

RECURSIVE SumCounts(_)
\* the number of samples the rows of an aggregated table were reduced from
SumCounts(rows) ==
    IF rows = <<>> THEN 0 ELSE Head(rows)["secret_rate"][2] + SumCounts(Tail(rows))

\* C23: for every chunk, each aggregated row's time is the bin edge
\* floor((t - t0) / bin_width) * bin_width + t0 of at least one sample time t of
\* the chunk, every sample of the chunk is counted in exactly one row, and the
\* rows of one chunk and one category have pairwise distinct times.
C23_RowsAreBinEdges ==
    cfg.bin_sec > 0 =>
        \A k \in DOMAIN chunks : \A cat \in CategorySet :
           LET rows    == ChunkTables(k)[cat].rows
               samples == 0 .. chunks[k][3] - 1
           IN  /\ \A r \in DOMAIN rows :
                     \E i \in samples : rows[r]["time"] = Num(SampleEdge(k, i))
               /\ \A i \in samples :
                     Cardinality({r \in DOMAIN rows :
                                     rows[r]["time"] = Num(SampleEdge(k, i))}) = 1
               /\ SumCounts(ChunkTables(k)["security"].rows) = Cardinality(samples)
               /\ \A r1, r2 \in DOMAIN rows :
                     rows[r1]["time"] = rows[r2]["time"] => r1 = r2

\* C23 witness: a chunk of several samples was aggregated into two rows, one of
\* them reduced from several samples of the same bin edge.
C23_Witness ==
    /\ cfg.bin_sec > 0
    /\ \E k \in DOMAIN chunks :
         /\ chunks[k][3] >= 3
         /\ Len(ChunkTables(k)["security"].rows) = 2
         /\ \E r \in 1 .. 2 : ChunkTables(k)["security"].rows[r]["secret_rate"][2] >= 2

\* the orders in which n chunks can be processed
ChunkOrders(n) == {p \in [1 .. n -> 1 .. n] : \A i, j \in 1 .. n : p[i] = p[j] => i = j}

RECURSIVE ProcessedIn(_, _)
\* the store after the chunks p[1], ..., p[i] were generated, aggregated and
\* appended in this order
ProcessedIn(p, i) ==
    IF i = 0 THEN MetricFrame ELSE append(ProcessedIn(p, i - 1), ChunkTables(p[i]))

\* C24: the result of a run does not depend on the order in which its chunks
\* are processed: generating, aggregating and appending the chunks of the run in
\* any permutation and then applying the final stable sort yields, per category,
\* the same sequence of rows as the run, which processes them in increasing
\* start-time order.
C24_ChunkOrderIndependent ==
    (pc = "Finished" /\ Valid(cfg)) =>
        \A p \in ChunkOrders(Len(chunks)) : \A cat \in CategorySet :
           sort_values(ProcessedIn(p, Len(chunks))[cat]).rows = returned[cat].rows

(***************************************************************************)
(* Properties of a sweep                                                   *)
(***************************************************************************)
\* C25: independent runs of a parameter sweep are isolated: each sweep task
\* creates its own store, and no two tasks of one sweep (built-in grid or YAML
\* grid, sequential or in parallel workers) write their artifacts to the same
\* destination directory.
C25_SweepIsolated ==
    sweep.kind # "none" =>
        /\ \A i, j \in DOMAIN sweep.tags :
              (i # j /\ sweep.stores[i] # 0) => sweep.stores[i] # sweep.stores[j]
        /\ \A t \in DOMAIN sweep.artifacts : Len(sweep.artifacts[t]) <= 1

(***************************************************************************)
(* Cancellation, termination and the loop invariant of run                 *)
(***************************************************************************)
\* C26: a caller can signal termination of a run in progress; the signal is
\* honoured at the next chunk boundary, never in the middle of a chunk's
\* generate/aggregate/append step: once it is given between two chunks, no
\* further chunk is processed.
C26_SignalHonoured == [][signal => chunks' = chunks]_vars

\* ceil(a / b) for b > 0
Ceil(a, b) == -((-a) \div b)

\* C27: for every duration > 0 and chunk_width > 0 (exact arithmetic) the chunk
\* loop of run ends after exactly ceil(duration / chunk_width) iterations and
\* run then reaches Finished (unless an exception has left it); with
\* chunk_width <= 0 and duration > 0 the loop makes no progress, remaining never
\* falls below duration, and the loop is never left.
C27_LoopTerminates ==
    /\ [](  (cfg.duration_s > 0 /\ cfg.chunk_sec > 0) =>
              /\ Len(chunks) <= Ceil(cfg.duration_s, cfg.chunk_sec)
              /\ pc \in {"Sorting", "Finished"} =>
                    Len(chunks) = Ceil(cfg.duration_s, cfg.chunk_sec))
    /\ [](  (cfg.duration_s > 0 /\ cfg.chunk_sec <= 0 /\ pc # "Idle") =>
              /\ pc \in {"Running", "Aborted"}
              /\ remaining >= cfg.duration_s)
    /\ (pc = "Running" /\ cfg.duration_s > 0 /\ cfg.chunk_sec > 0)
          ~> (pc \in {"Finished", "Aborted"})

\* C27 witness: a run whose duration is no multiple of its chunk width has
\* finished after ceil(duration / chunk_width) = 3 iterations.
C27_Witness ==
    /\ pc = "Finished"
    /\ cfg.chunk_sec > 0
    /\ cfg.duration_s % cfg.chunk_sec # 0
    /\ Len(chunks) = 3
    /\ Ceil(cfg.duration_s, cfg.chunk_sec) = 3

\* C28: loop invariant of run: at the start of every iteration and at loop
\* exit, t0 + remaining = duration, 0 <= t0 <= duration and remaining >= 0; the
\* chunks processed are contiguous intervals [t0, t0 + cur) from 0 on, and at
\* loop exit they end at duration: [0, duration) is covered exactly once.
\* (Sums are taken as the code would take them, in binary64.)
C28_LoopInvariant ==
    fl.pc \in {"Running", "Exited"} =>
        /\ FloatAdd(fl.t0, fl.remaining) = fl.duration_s
        /\ ~FloatLess(fl.duration_s, fl.t0)
        /\ ~FloatLess(fl.remaining, FloatZero)
        /\ \A k \in DOMAIN fl.chunks :
              fl.chunks[k][1] = (IF k = 1 THEN FloatZero
                                 ELSE FloatAdd(fl.chunks[k - 1][1], fl.chunks[k - 1][2]))
        /\ fl.pc = "Exited" => fl.t0 = fl.duration_s

\* the "time" cells of a table, in row order
TimeCells(df) == [i \in DOMAIN df.rows |-> df.rows[i]["time"]]

\* C29: after every iteration of the chunk loop and after run returns, the four
\* category tables have the same number of rows and the same sequence of "time"
\* values: a chunk adds the same bin edges to physical, network, protocol and
\* security.
C29_SameTimeBase ==
    /\ pc \in {"Running", "Finished"} =>
          \A cat \in CategorySet :
             /\ Len(mf[cat].rows) = Len(mf["physical"].rows)
             /\ TimeCells(mf[cat]) = TimeCells(mf["physical"])
    /\ pc = "Finished" =>
          \A cat \in CategorySet : TimeCells(returned[cat]) = TimeCells(returned["physical"])
    /\ \A k \in DOMAIN chunks : \A cat \in CategorySet :
          TimeCells(ChunkTables(k)[cat]) = TimeCells(ChunkTables(k)["physical"])

\* C29 witness: a run of several chunks has returned tables of at least three
\* rows whose arrival order was not the time order.
C29_Witness ==
    /\ pc = "Finished"
    /\ Len(chunks) >= 2
    /\ Len(returned["network"].rows) >= 3
    /\ ~NonDecreasing(Times([rows |-> ArrivalRows("network", Len(chunks))]))

\* the rows chunk k appended have a time in [t0, t0 + cur) of the chunk
InOwnChunk(k) ==
    \A cat \in CategorySet : \A r \in DOMAIN ChunkTables(k)[cat].rows :
       LET t == ChunkTables(k)[cat].rows[r]["time"][2]
       IN  chunks[k][1] <= t /\ t < chunks[k][1] + chunks[k][2]

StrictlyIncreasing(s) == \A i, j \in DOMAIN s : i < j => s[i] < s[j]

\* C30: every row appended by a chunk has a time in [t0, t0 + cur) of its chunk,
\* so rows of different chunks never share a time: before the final sort each
\* category table is already strictly increasing in "time", all times lie in
\* [0, duration), and the final sort changes no row's position.
C30_SortedOnArrival ==
    Valid(cfg) =>
        /\ \A k \in DOMAIN chunks : InOwnChunk(k)
        /\ pc \in {"Running", "Sorting", "Finished"} =>
              \A cat \in CategorySet :
                 LET arrival == ArrivalRows(cat, Len(chunks))
                 IN  /\ StrictlyIncreasing(Times([rows |-> arrival]))
                     /\ \A i \in DOMAIN arrival :
                           0 <= arrival[i]["time"][2] /\ arrival[i]["time"][2] < cfg.duration_s
                     /\ pc = "Finished" => returned[cat].rows = arrival

====
